---------------------------- MODULE Spec2Model ----------------------------
(* A model of the address-book assistant of HW-1.py: the field validators, *)
(* Record and AddressBook, the birthday-window computation, the command    *)
(* handlers behind input_error, persistence, and the read-eval-print loop. *)
(*                                                                         *)
(* A Python str is a sequence of characters, a character a one-character   *)
(* string; the two non-ASCII characters of the alphabet are written by     *)
(* their code points.  None is the empty tuple and a present value x is    *)
(* <<x>>.  A call that can raise yields a record whose field raised names  *)
(* the exception ("" when it returned) beside the state the call left.     *)
EXTENDS Integers, Sequences, FiniteSets, TLC

VARIABLES pc, book, file, saves, clock, command, output, upcoming

vars == <<pc, book, file, saves, clock, command, output, upcoming>>

None == <<>>

Some(x) == <<x>>

---------------------------------------------------------------------------
(* Characters and strings                                                  *)

AsciiDigits == {"0", "1", "2", "3", "4", "5", "6", "7", "8", "9"}

\* ARABIC-INDIC DIGIT THREE: category Nd, numeric value 3
ArabicThree == "U+0663"

\* SUPERSCRIPT TWO: category No, Numeric_Type=Digit
SuperscriptTwo == "U+00B2"

\* str.isdigit() of one character: Numeric_Type Digit or Decimal
char_isdigit(c) == c \in AsciiDigits \cup {ArabicThree, SuperscriptTwo}

\* str.isdigit(): every character is a digit and there is at least one
isdigit(s) == Len(s) > 0 /\ \A i \in 1..Len(s) : char_isdigit(s[i])

\* the regular expression class \d on str patterns: category Nd
re_digit(c) == c \in AsciiDigits \cup {ArabicThree}

\* int() of one decimal character
digit_value(c) ==
    CASE c = "0" -> 0 [] c = "1" -> 1 [] c = "2" -> 2 [] c = "3" -> 3
      [] c = "4" -> 4 [] c = "5" -> 5 [] c = "6" -> 6 [] c = "7" -> 7
      [] c = "8" -> 8 [] c = "9" -> 9 [] c = ArabicThree -> 3

RECURSIVE int(_)
\* int() of a string of decimal characters
int(s) == IF s = <<>> THEN 0
          ELSE 10 * int(SubSeq(s, 1, Len(s) - 1)) + digit_value(s[Len(s)])

isspace(c) == c \in {" ", "\t"}

char_lower(c) ==
    CASE c = "A" -> "a" [] c = "B" -> "b" [] c = "D" -> "d" [] c = "E" -> "e"
      [] c = "O" -> "o" [] c = "X" -> "x" [] OTHER -> c

\* str.lower()
lower(s) == [i \in 1..Len(s) |-> char_lower(s[i])]

RECURSIVE lstrip(_)
lstrip(s) == IF s # <<>> /\ isspace(s[1]) THEN lstrip(Tail(s)) ELSE s

RECURSIVE rstrip(_)
rstrip(s) == IF s # <<>> /\ isspace(s[Len(s)])
             THEN rstrip(SubSeq(s, 1, Len(s) - 1)) ELSE s

\* str.strip()
strip(s) == rstrip(lstrip(s))

RECURSIVE split_on(_, _, _, _)
\* the fields of s cut at the characters of seps; cur is the field being read
\* and keep_empty tells whether empty fields are kept (str.split(sep)) or
\* dropped (str.split())
split_on(s, seps, cur, keep_empty) ==
    LET done == IF cur = <<>> /\ ~keep_empty THEN <<>> ELSE <<cur>>
    IN IF s = <<>> THEN done
       ELSE IF s[1] \in seps
            THEN done \o split_on(Tail(s), seps, <<>>, keep_empty)
            ELSE split_on(Tail(s), seps, Append(cur, s[1]), keep_empty)

\* str.split(): cut at runs of whitespace, no empty fields
split(s) == split_on(s, {" ", "\t"}, <<>>, FALSE)

RECURSIVE join(_, _)
\* sep.join(parts)
join(sep, parts) ==
    IF parts = <<>> THEN <<>>
    ELSE IF Len(parts) = 1 THEN parts[1]
    ELSE parts[1] \o sep \o join(sep, Tail(parts))

---------------------------------------------------------------------------
(* Fields                                                                  *)

PhoneLen == 10

\* Phone.__init__ on a str
Phone_init(value) ==
    IF ~isdigit(value) \/ Len(value) # PhoneLen
    THEN [raised |-> "ValueError", value |-> None]
    ELSE [raised |-> "", value |-> Some(value)]

IsLeap(y) == y % 4 = 0 /\ (y % 100 # 0 \/ y % 400 = 0)

DaysInMonth(y, m) ==
    IF m = 2 THEN (IF IsLeap(y) THEN 29 ELSE 28)
    ELSE IF m \in {4, 6, 9, 11} THEN 30 ELSE 31

\* datetime.date(y, m, d) is constructible
IsDate(y, m, d) ==
    /\ y \in 1..9999
    /\ m \in 1..12
    /\ d >= 1 /\ d <= DaysInMonth(y, m)

Date(y, m, d) == [year |-> y, month |-> m, day |-> d]

DaysBeforeYear(y) ==
    (y - 1) * 365 + (y - 1) \div 4 - (y - 1) \div 100 + (y - 1) \div 400

RECURSIVE DaysBeforeMonth(_, _)
DaysBeforeMonth(y, m) ==
    IF m = 1 THEN 0 ELSE DaysBeforeMonth(y, m - 1) + DaysInMonth(y, m - 1)

\* date.toordinal(): 1 for 0001-01-01
toordinal(dt) == DaysBeforeYear(dt.year) + DaysBeforeMonth(dt.year, dt.month) + dt.day

\* date.fromordinal()
fromordinal(n) ==
    LET y == CHOOSE y \in (n \div 366)..(n \div 365 + 1) :
                 DaysBeforeYear(y) < n /\ n <= DaysBeforeYear(y + 1)
        r == n - DaysBeforeYear(y)
        m == CHOOSE m \in 1..12 :
                 DaysBeforeMonth(y, m) < r /\ r <= DaysBeforeMonth(y, m) + DaysInMonth(y, m)
    IN Date(y, m, r - DaysBeforeMonth(y, m))

\* date.weekday(): Monday is 0
weekday(dt) == (toordinal(dt) + 6) % 7

\* date + timedelta(days=n)
date_add(dt, n) == fromordinal(toordinal(dt) + n)

\* date.replace(year=y)
date_replace_year(dt, y) ==
    IF IsDate(y, dt.month, dt.day)
    THEN [raised |-> "", value |-> Some(Date(y, dt.month, dt.day))]
    ELSE [raised |-> "ValueError", value |-> None]

\* the strptime pattern of %d: 3[0-1]|[1-2]\d|0[1-9]|[1-9]| [1-9]
re_day(s) ==
    \/ Len(s) = 2 /\ s[1] = "3" /\ s[2] \in {"0", "1"}
    \/ Len(s) = 2 /\ s[1] \in {"1", "2"} /\ re_digit(s[2])
    \/ Len(s) = 2 /\ s[1] \in {"0", " "} /\ s[2] \in AsciiDigits \ {"0"}
    \/ Len(s) = 1 /\ s[1] \in AsciiDigits \ {"0"}

\* the strptime pattern of %m: 1[0-2]|0[1-9]|[1-9]
re_month(s) ==
    \/ Len(s) = 2 /\ s[1] = "1" /\ s[2] \in {"0", "1", "2"}
    \/ Len(s) = 2 /\ s[1] = "0" /\ s[2] \in AsciiDigits \ {"0"}
    \/ Len(s) = 1 /\ s[1] \in AsciiDigits \ {"0"}

\* the strptime pattern of %Y: \d\d\d\d
re_year(s) == Len(s) = 4 /\ \A i \in 1..4 : re_digit(s[i])

\* datetime.strptime(value, "%d.%m.%Y"): the whole string matches
\* day "." month "." year and the three numbers make a date
strptime(value) ==
    LET f == split_on(value, {"."}, <<>>, TRUE)
        dd == int(lstrip(f[1]))
        mm == int(f[2])
        yy == int(f[3])
    IN IF Len(f) = 3 /\ re_day(f[1]) /\ re_month(f[2]) /\ re_year(f[3])
          /\ IsDate(yy, mm, dd)
       THEN [raised |-> "", value |-> Some(Date(yy, mm, dd))]
       ELSE [raised |-> "ValueError", value |-> None]

\* Birthday.__init__: the ValueError of strptime is raised again as ValueError
Birthday_init(value) ==
    LET r == strptime(value)
    IN IF r.raised = "ValueError"
       THEN [raised |-> "ValueError", value |-> None]
       ELSE r

Digits == <<"0", "1", "2", "3", "4", "5", "6", "7", "8", "9">>

\* a number zero-padded to w decimal places
RECURSIVE zero_pad(_, _)
zero_pad(n, w) ==
    IF w = 0 THEN <<>> ELSE Append(zero_pad(n \div 10, w - 1), Digits[(n % 10) + 1])

\* date.strftime("%d.%m.%Y"), as Birthday.__str__ and get_upcoming_birthdays use it
strftime(dt) ==
    zero_pad(dt.day, 2) \o <<".">> \o zero_pad(dt.month, 2) \o <<".">> \o zero_pad(dt.year, 4)

---------------------------------------------------------------------------
(* Printed text: a sequence of segments, each a literal of the program or  *)
(* a string that came from the data                                        *)

Lit(s) == [lit |-> s, chars |-> <<>>]

Txt(cs) == [lit |-> "", chars |-> cs]

RECURSIVE join_text(_, _)
\* sep.join(parts) where sep is a literal and every part a text
join_text(sep, parts) ==
    IF parts = <<>> THEN <<>>
    ELSE IF Len(parts) = 1 THEN parts[1]
    ELSE parts[1] \o <<Lit(sep)>> \o join_text(sep, Tail(parts))

\* Birthday.__str__
Birthday_str(b) == strftime(b)

---------------------------------------------------------------------------
(* Record                                                                  *)

\* Record.__init__
Record_init(name) == [name |-> name, phones |-> <<>>, birthday |-> None]

\* the index of the first phone of the list whose value is phone, 0 if none
first_index(phones, phone) ==
    IF \E i \in 1..Len(phones) : phones[i] = phone
    THEN CHOOSE i \in 1..Len(phones) :
             phones[i] = phone /\ \A j \in 1..(i - 1) : phones[j] # phone
    ELSE 0

\* Record.find_phone
find_phone(self, phone_number) ==
    LET i == first_index(self.phones, phone_number)
    IN IF i = 0 THEN None ELSE Some(self.phones[i])

\* Record.remove_phone
remove_phone(self, phone) ==
    LET i == first_index(self.phones, phone)
    IN IF i = 0
       THEN [raised |-> "ValueError", self |-> self]
       ELSE [raised |-> "",
             self |-> [self EXCEPT !.phones =
                          SubSeq(self.phones, 1, i - 1)
                          \o SubSeq(self.phones, i + 1, Len(self.phones))]]

\* Record.add_phone
add_phone(self, phone) ==
    LET p == Phone_init(phone)
    IN IF p.raised # ""
       THEN [raised |-> p.raised, self |-> self]
       ELSE [raised |-> "", self |-> [self EXCEPT !.phones = Append(@, p.value[1])]]

\* a faulty edit_phone that removes the old phone before it validates the
\* new one; C2 must tell it from edit_phone
edit_phone_removes_first(self, old_phone, new_phone) ==
    LET old_phone_obj == find_phone(self, old_phone)
        removed == remove_phone(self, old_phone)
        new_phone_obj == Phone_init(new_phone)
    IN IF old_phone_obj = None
       THEN [raised |-> "ValueError", self |-> self]
       ELSE IF new_phone_obj.raised = "ValueError"
       THEN [raised |-> "ValueError", self |-> removed.self]
       ELSE [raised |-> "",
             self |-> [removed.self EXCEPT !.phones = Append(@, new_phone_obj.value[1])]]

\* Record.edit_phone
edit_phone(self, old_phone, new_phone) ==
    LET old_phone_obj == find_phone(self, old_phone)
        new_phone_obj == Phone_init(new_phone)
        removed == remove_phone(self, old_phone)
    IN IF old_phone_obj = None
       THEN [raised |-> "ValueError", self |-> self]
       ELSE IF new_phone_obj.raised = "ValueError"
       THEN [raised |-> "ValueError", self |-> self]
       ELSE IF removed.raised # ""
       THEN removed
       ELSE [raised |-> "",
             self |-> [removed.self EXCEPT !.phones = Append(@, new_phone_obj.value[1])]]

\* Record.add_birthday
add_birthday(self, birthday) ==
    LET b == Birthday_init(birthday)
    IN IF b.raised # ""
       THEN [raised |-> b.raised, self |-> self]
       ELSE [raised |-> "", self |-> [self EXCEPT !.birthday = b.value]]

\* Record.__str__
Record_str(self) ==
    <<Lit("Contact name: "), Txt(self.name), Lit(", phones: "),
      Txt(join(<<";", " ">>, self.phones))>>
    \o (IF self.birthday # None
        THEN <<Lit(", birthday: "), Txt(Birthday_str(self.birthday[1]))>>
        ELSE <<>>)

---------------------------------------------------------------------------
(* AddressBook: the dict data in insertion order, one record per key       *)

\* the position of the key name in the dict, 0 if absent
key_index(data, name) ==
    IF \E i \in 1..Len(data) : data[i].name = name
    THEN CHOOSE i \in 1..Len(data) : data[i].name = name
    ELSE 0

\* AddressBook.add_record: data[record.name.value] = record
add_record(data, record) ==
    LET i == key_index(data, record.name)
    IN IF i = 0 THEN Append(data, record) ELSE [data EXCEPT ![i] = record]

\* AddressBook.find: data.get(name)
find(data, name) ==
    LET i == key_index(data, name)
    IN IF i = 0 THEN None ELSE Some(data[i])

\* a record of the book is an object the handlers change in place: the book
\* with the record under its name as the call left it
in_place(data, record) == [data EXCEPT ![key_index(data, record.name)] = record]

---------------------------------------------------------------------------
(* The birthday window                                                     *)

WindowDays == 7

Saturday == 5

DaysInWeek == 7

\* date < date
date_lt(a, b) == toordinal(a) < toordinal(b)

\* a faulty entry that moves only a Sunday (weekday > 5); C8 must tell it
\* from upcoming_entry
upcoming_entry_sunday_only(record, this_year) ==
    LET congratulation_date ==
            IF weekday(this_year) > Saturday
            THEN date_add(this_year, DaysInWeek - weekday(this_year))
            ELSE this_year
    IN [name |-> record.name, congratulation_date |-> strftime(congratulation_date)]

\* the dict appended for a record of the window
upcoming_entry(record, birthday_this_year) ==
    LET congratulation_date ==
            IF weekday(birthday_this_year) >= Saturday
            THEN date_add(birthday_this_year, DaysInWeek - weekday(birthday_this_year))
            ELSE birthday_this_year
    IN [name |-> record.name, congratulation_date |-> strftime(congratulation_date)]

\* the year substitution with 29 February moved to 28 February in a common
\* year instead of failing; C9 must tell it from birthday_this_year
birthday_this_year_clamped(birthday, today) ==
    LET clamp(y) == IF IsDate(y, birthday.month, birthday.day)
                    THEN Date(y, birthday.month, birthday.day)
                    ELSE Date(y, 2, 28)
        this == clamp(today.year)
    IN IF date_lt(this, today)
       THEN [raised |-> "", value |-> Some(clamp(today.year + 1))]
       ELSE [raised |-> "", value |-> Some(this)]

\* date.replace(year=today.year), and year + 1 when that is before today
birthday_this_year(birthday, today) ==
    LET this == date_replace_year(birthday, today.year)
    IN IF this.raised # "" THEN this
       ELSE IF date_lt(this.value[1], today)
       THEN date_replace_year(this.value[1], today.year + 1)
       ELSE this

RECURSIVE upcoming_loop(_, _, _)
\* the for loop of get_upcoming_birthdays over the records left, with the
\* list built so far; an exception ends the call and the list is lost
upcoming_loop(records, today, upcoming_birthdays) ==
    IF records = <<>> THEN [raised |-> "", value |-> Some(upcoming_birthdays)]
    ELSE LET record == Head(records)
             b == birthday_this_year(record.birthday[1], today)
             days_until_birthday == toordinal(b.value[1]) - toordinal(today)
         IN IF record.birthday = None
            THEN upcoming_loop(Tail(records), today, upcoming_birthdays)
            ELSE IF b.raised # ""
            THEN [raised |-> b.raised, value |-> None]
            ELSE IF days_until_birthday <= WindowDays
            THEN upcoming_loop(Tail(records), today,
                               Append(upcoming_birthdays, upcoming_entry(record, b.value[1])))
            ELSE upcoming_loop(Tail(records), today, upcoming_birthdays)

\* get_upcoming_birthdays, with the date datetime.today() gives
get_upcoming_birthdays(data, today) == upcoming_loop(data, today, <<>>)

---------------------------------------------------------------------------
(* The command handlers.  Each yields the exception it raised ("" if none), *)
(* the value it returned (None, or a text) and the book as it left it.      *)

Return(text, data) == [raised |-> "", ret |-> Some(text), data |-> data]

ReturnNone(data) == [raised |-> "", ret |-> None, data |-> data]

Raise(exc, data) == [raised |-> exc, ret |-> None, data |-> data]

\* input_error: the exceptions of the handler become fixed messages
input_error(r) ==
    IF r.raised = "ValueError"
    THEN Return(<<Lit("Give me name and phone please.")>>, r.data)
    ELSE IF r.raised = "KeyError"
    THEN Return(<<Lit("Contact not found.")>>, r.data)
    ELSE IF r.raised = "IndexError"
    THEN Return(<<Lit("Invalid command format. Use: [command] [name] [phone]")>>, r.data)
    ELSE r

\* a faulty add_contact that builds a new Record whether or not the name is
\* in the book, so that add_record overwrites the contact; C3 must tell it
\* from add_contact
add_contact_body_overwrites(args, data) ==
    IF Len(args) = 2
    THEN LET r == add_phone(Record_init(args[1]), args[2])
         IN IF r.raised # "" THEN Raise(r.raised, data)
            ELSE Return(<<Lit("New contact added.")>>, add_record(data, r.self))
    ELSE ReturnNone(data)

\* a faulty add_contact that puts the new Record in the book before it adds
\* the phone; C10 must tell it from add_contact
add_contact_body_registers_first(args, data) ==
    IF Len(args) = 2
    THEN LET name == args[1]
             phone == args[2]
             record == find(data, name)
         IN IF record # None
            THEN LET r == add_phone(record[1], phone)
                 IN IF r.raised # "" THEN Raise(r.raised, in_place(data, r.self))
                    ELSE Return(<<Lit("Phone added to existing contact.")>>,
                                in_place(data, r.self))
            ELSE LET r == add_phone(Record_init(name), phone)
                 IN IF r.raised # "" THEN Raise(r.raised, add_record(data, r.self))
                    ELSE Return(<<Lit("New contact added.")>>, add_record(data, r.self))
    ELSE ReturnNone(data)

\* add_contact below its decorator
add_contact_body(args, data) ==
    IF Len(args) = 2
    THEN LET name == args[1]
             phone == args[2]
             record == find(data, name)
         IN IF record # None
            THEN LET r == add_phone(record[1], phone)
                 IN IF r.raised # "" THEN Raise(r.raised, in_place(data, r.self))
                    ELSE Return(<<Lit("Phone added to existing contact.")>>,
                                in_place(data, r.self))
            ELSE LET r == add_phone(Record_init(name), phone)
                 IN IF r.raised # "" THEN Raise(r.raised, data)
                    ELSE Return(<<Lit("New contact added.")>>, add_record(data, r.self))
    ELSE ReturnNone(data)

add_contact(args, data) == input_error(add_contact_body(args, data))

\* change_contact below its decorator
change_contact_body(args, data) ==
    IF Len(args) = 3
    THEN LET name == args[1]
             old_phone == args[2]
             new_phone == args[3]
             record == find(data, name)
         IN IF record # None
            THEN LET r == edit_phone(record[1], old_phone, new_phone)
                 IN IF r.raised # "" THEN Raise(r.raised, in_place(data, r.self))
                    ELSE Return(<<Lit("Contact updated.")>>, in_place(data, r.self))
            ELSE Return(<<Lit("Contact not found.")>>, data)
    ELSE ReturnNone(data)

change_contact(args, data) == input_error(change_contact_body(args, data))

\* show_phone
show_phone(args, data) ==
    input_error(
        IF Len(args) = 1
        THEN LET record == find(data, args[1])
             IN IF record # None
                THEN Return(join_text("\n", [i \in 1..Len(record[1].phones) |->
                                                <<Txt(record[1].phones[i])>>]), data)
                ELSE ReturnNone(data)
        ELSE ReturnNone(data))

\* show_all
show_all(data) ==
    input_error(
        IF Len(data) > 0
        THEN Return(join_text("\n", [i \in 1..Len(data) |-> Record_str(data[i])]), data)
        ELSE Return(<<Lit("Address book is empty.")>>, data))

\* add_birthday (the handler) below its decorator
add_birthday_body(args, data) ==
    IF Len(args) = 2
    THEN LET name == args[1]
             birthday == args[2]
             record == find(data, name)
         IN IF record # None
            THEN LET r == add_birthday(record[1], birthday)
                 IN IF r.raised # "" THEN Raise(r.raised, in_place(data, r.self))
                    ELSE Return(<<Lit("Birthday added.")>>, in_place(data, r.self))
            ELSE Return(<<Lit("Contact not found.")>>, data)
    ELSE ReturnNone(data)

add_birthday_cmd(args, data) == input_error(add_birthday_body(args, data))

\* show_birthday
show_birthday(args, data) ==
    input_error(
        IF Len(args) = 1
        THEN LET record == find(data, args[1])
             IN IF record # None /\ record[1].birthday # None
                THEN Return(<<Txt(Birthday_str(record[1].birthday[1]))>>, data)
                ELSE Return(<<Lit("Birthday not found.")>>, data)
        ELSE ReturnNone(data))

\* birthdays, given what its call of get_upcoming_birthdays gave
birthdays(args, data, got) ==
    input_error(
        IF got.raised # "" THEN Raise(got.raised, data)
        ELSE IF Len(got.value[1]) > 0
        THEN Return(join_text("\n", [i \in 1..Len(got.value[1]) |->
                        <<Txt(got.value[1][i].name), Lit(": "),
                          Txt(got.value[1][i].congratulation_date)>>]), data)
        ELSE Return(<<Lit("No upcoming birthdays in the next week.")>>, data))

\* print(value)
print(ret) == IF ret = None THEN <<Lit("None")>> ELSE ret[1]

---------------------------------------------------------------------------
(* The lines typed at the prompt                                           *)

Alice == <<"a", "l", "i", "c", "e">>

Bob == <<"b", "o", "b">>

Eve == <<"e", "v", "e">>

\* ten ASCII digits
Phone1 == <<"0", "1", "2", "3", "4", "5", "6", "7", "8", "9">>

\* ten characters, each a digit to str.isdigit, two of them not ASCII
PhoneUnicode == <<"0", "1", "2", ArabicThree, "4", "5", "6", "7", "8", SuperscriptTwo>>

PhoneShort == <<"1", "2", "3", "4", "5">>

PhoneLong == Phone1 \o <<"0">>

PhoneLetters == <<"1", "2", "3", "4", "5", "a", "b", "c", "d", "e">>

\* 29.02.2000
LeapDay == <<"2", "9", ".", "0", "2", ".", "2", "0", "0", "0">>

\* 16.03.1990
MidMarch == <<"1", "6", ".", "0", "3", ".", "1", "9", "9", "0">>

\* 31.04.2000: no such day
NoSuchDay == <<"3", "1", ".", "0", "4", ".", "2", "0", "0", "0">>

\* 16-03-1990: not the format
Dashed == <<"1", "6", "-", "0", "3", "-", "1", "9", "9", "0">>

CmdAdd == <<"a", "d", "d">>

CmdChange == <<"c", "h", "a", "n", "g", "e">>

CmdPhone == <<"p", "h", "o", "n", "e">>

CmdAll == <<"a", "l", "l">>

CmdAddBirthday == <<"a", "d", "d", "-", "b", "i", "r", "t", "h", "d", "a", "y">>

CmdShowBirthday == <<"s", "h", "o", "w", "-", "b", "i", "r", "t", "h", "d", "a", "y">>

CmdBirthdays == <<"b", "i", "r", "t", "h", "d", "a", "y", "s">>

CmdHello == <<"h", "e", "l", "l", "o">>

CmdClose == <<"c", "l", "o", "s", "e">>

CmdExit == <<"e", "x", "i", "t">>

\* the words of a line, one space between them
Line(words) == join(<<" ">>, words)

Names == {Alice, Bob}

\* the phones typed that Phone accepts
AcceptedPhones == {Phone1, PhoneUnicode}

AddLines ==
    {Line(<<CmdAdd, n, p>>) : n \in Names, p \in AcceptedPhones \cup {PhoneShort, PhoneLetters}}
    \cup {Line(<<CmdAdd>>), Line(<<CmdAdd, Alice>>), Line(<<CmdAdd, Alice, Phone1, Phone1>>),
          Line(<<CmdAdd, Bob, PhoneLong>>),
          <<" ", "A", "D", "D", " ", " ", "B", "O", "B", "\t">> \o Phone1 \o <<" ">>}

ChangeLines ==
    {Line(<<CmdChange, n, old, new>>) :
        n \in Names, old \in AcceptedPhones, new \in AcceptedPhones \cup {PhoneLetters}}
    \cup {Line(<<CmdChange, Eve, Phone1, PhoneUnicode>>), Line(<<CmdChange, Alice, Phone1>>),
          Line(<<CmdChange>>)}

PhoneLines ==
    {Line(<<CmdPhone, n>>) : n \in Names \cup {Eve}}
    \cup {Line(<<CmdPhone>>), Line(<<CmdPhone, Alice, Bob>>)}

AddBirthdayLines ==
    {Line(<<CmdAddBirthday, Alice, b>>) : b \in {MidMarch, NoSuchDay}}
    \cup {Line(<<CmdAddBirthday, Bob, b>>) : b \in {LeapDay, Dashed}}
    \cup {Line(<<CmdAddBirthday, Eve, MidMarch>>), Line(<<CmdAddBirthday, Alice>>)}

ShowBirthdayLines ==
    {Line(<<CmdShowBirthday, n>>) : n \in Names \cup {Eve}}
    \cup {Line(<<CmdShowBirthday>>)}

OtherLines ==
    {Line(<<CmdAll>>), Line(<<CmdHello>>), Line(<<CmdHello, Alice>>),
     Line(<<CmdBirthdays>>), Line(<<CmdBirthdays, Alice>>),
     Line(<<CmdClose>>), Line(<<CmdExit>>), <<"E", "x", "i", "t", " ">>,
     Line(<<CmdExit, Alice>>),
     Line(<<Eve>>), <<>>, <<" ">>, <<" ", "\t", " ">>}

Lines ==
    AddLines \cup ChangeLines \cup PhoneLines \cup AddBirthdayLines
    \cup ShowBirthdayLines \cup OtherLines

\* parse_input
parse_input(user_input) ==
    LET words == split(user_input)
    IN IF words = <<>>
       THEN [raised |-> "ValueError", cmd |-> <<>>, args |-> <<>>]
       ELSE [raised |-> "", cmd |-> lower(strip(words[1])), args |-> Tail(words)]

\* what main makes of each line: parse_input(input(...).strip().lower())
Parsed == [line \in Lines |-> parse_input(lower(strip(line)))]

---------------------------------------------------------------------------
(* The state: pc is where main is ("start" before load_data, "loop" at the  *)
(* prompt, "saving" after break, "done", or "crashed" when an exception    *)
(* left main); book is the address book; file is addressbook.pkl (None     *)
(* when absent); saves counts the calls of save_data; clock is the date of *)
(* the system clock; command is the last command parsed, output the last   *)
(* text printed, and upcoming what get_upcoming_birthdays gave when the    *)
(* last command called it (None otherwise).                                *)

\* the phones a run may hold in all
MaxTotalPhones == 3

RECURSIVE TotalPhones(_)
TotalPhones(data) ==
    IF data = <<>> THEN 0 ELSE Len(Head(data).phones) + TotalPhones(Tail(data))

\* a book an earlier run saved: add alice 0123456789, add-birthday alice 16.03.1990
SavedBook == <<[name |-> Alice, phones |-> <<Phone1>>, birthday |-> Some(Date(1990, 3, 16))]>>

\* Sunday 10.03.2024
SessionDay == Date(2024, 3, 10)

Init ==
    /\ pc = "start"
    /\ book = <<>>
    /\ file \in {None, Some(SavedBook)}
    /\ saves = 0
    /\ clock = SessionDay
    /\ command = <<>>
    /\ output = <<>>
    /\ upcoming = None

\* pickle.load of what pickle.dump wrote
load_data(f) == IF f = None THEN <<>> ELSE f[1]

\* a faulty save_data that dumps a fresh AddressBook; C6 must tell it from
\* save_data
save_data_fresh(data) == Some(<<>>)

\* pickle.dump of the book
save_data(data) == Some(data)

LoadData ==
    /\ pc = "start"
    /\ book' = load_data(file)
    /\ pc' = "loop"
    /\ output' = <<Lit("Welcome to the assistant bot!")>>
    /\ UNCHANGED <<file, saves, clock, command, upcoming>>

\* main reads line and its command is cmd
Reads(line, cmds) ==
    /\ pc = "loop"
    /\ Parsed[line].raised = ""
    /\ Parsed[line].cmd \in cmds
    /\ command' = Parsed[line].cmd

\* a handler ran and main printed what it returned
Handled(r) ==
    /\ TotalPhones(r.data) <= MaxTotalPhones
    /\ book' = r.data
    /\ output' = print(r.ret)
    /\ UNCHANGED <<pc, file, saves, clock>>

\* parse_input raises: nothing in main catches it
ParseCrash(line) ==
    /\ pc = "loop"
    /\ Parsed[line].raised # ""
    /\ pc' = "crashed"
    /\ UNCHANGED <<book, file, saves, clock, command, output, upcoming>>

Exit(line) ==
    /\ Reads(line, {CmdClose, CmdExit})
    /\ output' = <<Lit("Good bye!")>>
    /\ pc' = "saving"
    /\ upcoming' = None
    /\ UNCHANGED <<book, file, saves, clock>>

SaveData ==
    /\ pc = "saving"
    /\ file' = save_data(book)
    /\ saves' = saves + 1
    /\ pc' = "done"
    /\ UNCHANGED <<book, clock, command, output, upcoming>>

Hello(line) ==
    /\ Reads(line, {CmdHello})
    /\ output' = <<Lit("How can I help you?")>>
    /\ upcoming' = None
    /\ UNCHANGED <<pc, book, file, saves, clock>>

AddContact(line) ==
    /\ Reads(line, {CmdAdd})
    /\ Handled(add_contact(Parsed[line].args, book))
    /\ upcoming' = None

ChangeContact(line) ==
    /\ Reads(line, {CmdChange})
    /\ Handled(change_contact(Parsed[line].args, book))
    /\ upcoming' = None

ShowPhone(line) ==
    /\ Reads(line, {CmdPhone})
    /\ Handled(show_phone(Parsed[line].args, book))
    /\ upcoming' = None

ShowAll(line) ==
    /\ Reads(line, {CmdAll})
    /\ Handled(show_all(book))
    /\ upcoming' = None

AddBirthday(line) ==
    /\ Reads(line, {CmdAddBirthday})
    /\ Handled(add_birthday_cmd(Parsed[line].args, book))
    /\ upcoming' = None

ShowBirthday(line) ==
    /\ Reads(line, {CmdShowBirthday})
    /\ Handled(show_birthday(Parsed[line].args, book))
    /\ upcoming' = None

Birthdays(line) ==
    /\ Reads(line, {CmdBirthdays})
    /\ LET got == get_upcoming_birthdays(book, clock)
       IN /\ Handled(birthdays(Parsed[line].args, book, got))
          /\ upcoming' = Some(got)

Commands ==
    {CmdClose, CmdExit, CmdHello, CmdAdd, CmdChange, CmdPhone, CmdAll,
     CmdAddBirthday, CmdShowBirthday, CmdBirthdays}

InvalidCommand(line) ==
    /\ pc = "loop"
    /\ Parsed[line].raised = ""
    /\ Parsed[line].cmd \notin Commands
    /\ command' = Parsed[line].cmd
    /\ output' = <<Lit("Invalid command.")>>
    /\ upcoming' = None
    /\ UNCHANGED <<pc, book, file, saves, clock>>

\* the lines main dispatches to the branch of each command, the lines it
\* takes for no command, and the lines parse_input fails on
Dispatched(cmds) ==
    {line \in Lines : Parsed[line].raised = "" /\ Parsed[line].cmd \in cmds}

ExitInput == Dispatched({CmdClose, CmdExit})

HelloInput == Dispatched({CmdHello})

AddInput == Dispatched({CmdAdd})

ChangeInput == Dispatched({CmdChange})

PhoneInput == Dispatched({CmdPhone})

AllInput == Dispatched({CmdAll})

AddBirthdayInput == Dispatched({CmdAddBirthday})

ShowBirthdayInput == Dispatched({CmdShowBirthday})

BirthdaysInput == Dispatched({CmdBirthdays})

InvalidInput == {line \in Lines : Parsed[line].raised = "" /\ Parsed[line].cmd \notin Commands}

UnparsedInput == {line \in Lines : Parsed[line].raised # ""}

Next ==
    \/ LoadData
    \/ \E line \in UnparsedInput : ParseCrash(line)
    \/ \E line \in ExitInput : Exit(line)
    \/ \E line \in HelloInput : Hello(line)
    \/ \E line \in AddInput : AddContact(line)
    \/ \E line \in ChangeInput : ChangeContact(line)
    \/ \E line \in PhoneInput : ShowPhone(line)
    \/ \E line \in AllInput : ShowAll(line)
    \/ \E line \in AddBirthdayInput : AddBirthday(line)
    \/ \E line \in ShowBirthdayInput : ShowBirthday(line)
    \/ \E line \in BirthdaysInput : Birthdays(line)
    \/ \E line \in InvalidInput : InvalidCommand(line)
    \/ SaveData

Spec == Init /\ [][Next]_vars

---------------------------------------------------------------------------
(* The birthday window over many books and dates: the book and the clock   *)
(* are drawn at the start and the only command is birthdays.               *)

\* the days each window of dates runs past its first
DaySpan == 10

\* the first days of the windows of today: late February of a common year,
\* late February of a leap year, the week of Sunday 10.03.2024, and the
\* turn of a year
WindowStarts == {Date(2023, 2, 20), Date(2024, 2, 20), Date(2024, 3, 8), Date(2023, 12, 23)}

Todays == {date_add(s, k) : s \in WindowStarts, k \in 0..DaySpan}

\* birthdays as Birthday stores them
SampleBirthdays ==
    {Date(2000, 2, 29), Date(1990, 2, 28), Date(1990, 3, 1), Date(1990, 3, 12),
     Date(1990, 3, 16), Date(1990, 3, 17), Date(1985, 12, 31), Date(1985, 1, 1),
     Date(1985, 1, 6)}

BirthdayOptions == {None} \cup {Some(b) : b \in SampleBirthdays}

SampleBooks ==
    {<<[name |-> Alice, phones |-> <<Phone1>>, birthday |-> a]>> : a \in BirthdayOptions}
    \cup {<<[name |-> Bob, phones |-> <<Phone1>>, birthday |-> b],
            [name |-> Alice, phones |-> <<PhoneUnicode>>, birthday |-> a]>> :
             a \in BirthdayOptions, b \in BirthdayOptions}

InitDates ==
    /\ pc = "loop"
    /\ book \in SampleBooks
    /\ file = None
    /\ saves = 0
    /\ clock \in Todays
    /\ command = <<>>
    /\ output = <<Lit("Welcome to the assistant bot!")>>
    /\ upcoming = None

NextDates == \E line \in BirthdaysInput : Birthdays(line)

SpecDates == InitDates /\ [][NextDates]_vars

---------------------------------------------------------------------------
(* What the claims speak of, said without the code's own computation       *)

\* a string of exactly ten ASCII digits
TenAsciiDigits(p) == Len(p) = 10 /\ \A i \in 1..Len(p) : p[i] \in AsciiDigits

GiveMeNameAndPhone == <<Lit("Give me name and phone please.")>>

ArityMessage == <<Lit("Invalid command format. Use: [command] [name] [phone]")>>

\* what the handlers print when they did what was asked
SuccessMessages ==
    {<<Lit("New contact added.")>>, <<Lit("Phone added to existing contact.")>>,
     <<Lit("Contact updated.")>>, <<Lit("Birthday added.")>>}

\* the calendar day after dt
DayAfter(dt) ==
    IF dt.day < DaysInMonth(dt.year, dt.month) THEN Date(dt.year, dt.month, dt.day + 1)
    ELSE IF dt.month < 12 THEN Date(dt.year, dt.month + 1, 1)
    ELSE Date(dt.year + 1, 1, 1)

RECURSIVE DaysAfter(_, _)
\* the calendar day k days after dt
DaysAfter(dt, k) == IF k = 0 THEN dt ELSE DaysAfter(DayAfter(dt), k - 1)

\* the month and day of birthday fall on the k-th day after today
FallsOn(birthday, today, k) ==
    LET dt == DaysAfter(today, k)
    IN dt.month = birthday.month /\ dt.day = birthday.day

\* the next occurrence of the birthday, today or later, is at most 7 days away
WithinWeek(birthday, today) == \E k \in 0..7 : FallsOn(birthday, today, k)

\* how many days away that occurrence is
DaysAway(birthday, today) ==
    CHOOSE k \in 0..7 :
        FallsOn(birthday, today, k) /\ \A j \in 0..(k - 1) : ~FallsOn(birthday, today, j)

\* the record is due: it has a birthday and it is within the week
Due(record, today) ==
    record.birthday # None /\ WithinWeek(record.birthday[1], today)

\* the names of the records due, in the book's order
DueNames(data, today) ==
    LET IsDue(record) == Due(record, today)
        due == SelectSeq(data, IsDue)
    IN [i \in 1..Len(due) |-> due[i].name]

\* the year put in place of a 29 February birthday's: today's, or the next
\* when 29 February of this year is before today
LeapDayYear(today) ==
    IF IsLeap(today.year) /\ today.month > 2 THEN today.year + 1 ELSE today.year

\* the last call of get_upcoming_birthdays returned a list
Returned == upcoming # None /\ upcoming[1].raised = ""

\* C1: every phone stored in every record is a string of exactly 10 ASCII
\* digits, whatever add and change commands were given.
C1_StoredPhonesAreTenAsciiDigits ==
    \A i \in 1..Len(book) : \A j \in 1..Len(book[i].phones) :
        TenAsciiDigits(book[i].phones[j])

\* C2: when edit_phone fails, because the old phone is not in the record's
\* list or because the new phone is not one Phone accepts, an error is
\* signalled (the handler prints the ValueError message) and the record, its
\* phone list in content and order and its birthday, and with it the whole
\* book, is what it was before the call.
C2_FailedEditLeavesRecord ==
    [][(pc = "loop" /\ pc' = "loop" /\ command' = CmdChange) =>
       \A line \in ChangeInput :
          LET args == Parsed[line].args
              record == find(book, args[1])
          IN (/\ Len(args) = 3
              /\ record # None
              /\ \/ \A j \in 1..Len(record[1].phones) : record[1].phones[j] # args[2]
                 \/ Phone_init(args[3]).raised # ""
              /\ ChangeContact(line))
             => (book' = book /\ output' = GiveMeNameAndPhone)]_vars

\* C2's case: a change command failed on a contact that holds two phones
C2_Witness ==
    /\ pc = "loop"
    /\ command = CmdChange
    /\ output = GiveMeNameAndPhone
    /\ \E i \in 1..Len(book) : Len(book[i].phones) = 2 /\ book[i].birthday # None

\* C3: add with a name the book holds and a valid phone appends the phone to
\* that contact's list: the contacts and their order stay, the contact keeps
\* its earlier phones and its birthday, every other contact is unchanged; and
\* a contact is created only under a name the book did not hold.
C3_AddToExistingAppends ==
    [][(pc = "loop" /\ pc' = "loop" /\ command' = CmdAdd) =>
       \A line \in AddInput :
          LET args == Parsed[line].args
              i == key_index(book, args[1])
          IN /\ (/\ Len(args) = 2
                 /\ i # 0
                 /\ TenAsciiDigits(args[2])
                 /\ AddContact(line))
                => (/\ Len(book') = Len(book)
                    /\ book'[i] = [book[i] EXCEPT !.phones = Append(@, args[2])]
                    /\ \A j \in 1..Len(book) : j # i => book'[j] = book[j]
                    /\ output' = <<Lit("Phone added to existing contact.")>>)
             /\ (Len(book') # Len(book) /\ AddContact(line))
                => (/\ Len(args) = 2
                    /\ i = 0
                    /\ book' = Append(book, [name |-> args[1], phones |-> <<args[2]>>,
                                             birthday |-> None]))]_vars

\* C3's case: a phone was added to a contact that had one, beside another
\* contact
C3_Witness ==
    /\ output = <<Lit("Phone added to existing contact.")>>
    /\ Len(book) = 2
    /\ \E i \in 1..2 : Len(book[i].phones) = 2 /\ book[i].phones[2] = Phone1
                       /\ book[i].phones[1] = PhoneUnicode

\* C4: each handler that takes arguments, called with the wrong number of
\* them, returns the arity message and leaves the book unchanged.
C4_WrongArityGivesArityMessage ==
    [][\A line \in Lines :
          LET n == Len(Parsed[line].args)
          IN (\/ AddContact(line) /\ n # 2
              \/ ChangeContact(line) /\ n # 3
              \/ ShowPhone(line) /\ n # 1
              \/ AddBirthday(line) /\ n # 2
              \/ ShowBirthday(line) /\ n # 1)
             => (output' = ArityMessage /\ book' = book)]_vars

\* C5: no line is fatal to the loop: after any line but close or exit the
\* loop is at the prompt again, and it ends only on close or exit.
C5_NoLineIsFatal ==
    [][pc = "loop" =>
          \/ pc' = "loop"
          \/ pc' = "saving" /\ command' \in {CmdClose, CmdExit}]_vars

\* C6: the book is saved exactly once, after the loop ended on close or exit
\* and before the process ends, and what is saved is the book as the
\* commands left it; there is no save at any other point; and a start with
\* no file begins with an empty book.
C6_SavedOnceOnExit ==
    [][/\ (pc = "start" /\ file = None) => (pc' = "loop" /\ book' = <<>>)
       /\ pc' = "saving" => (pc = "loop" /\ command' \in {CmdClose, CmdExit})
       /\ pc = "saving" => pc' = "done"
       /\ pc' = "done" => (/\ pc = "saving"
                           /\ saves = 0 /\ saves' = 1
                           /\ book' = book
                           /\ file' = Some(book))
       /\ pc' # "done" => (saves' = 0 /\ file' = file)]_vars

\* C6's case: the run ended on exit with two contacts in the book and saved
\* them
C6_Witness ==
    /\ pc = "done"
    /\ command \in {CmdClose, CmdExit}
    /\ saves = 1
    /\ Len(book) = 2
    /\ file = Some(book)

\* C7: for every book and every today, get_upcoming_birthdays returns an
\* entry for a record exactly when the record has a birthday whose next
\* occurrence, today or later, is at most 7 days away; each such record
\* once, in the book's order.
C7_EntriesAreTheRecordsDue ==
    upcoming # None =>
        /\ upcoming[1].raised = ""
        /\ [i \in 1..Len(upcoming[1].value[1]) |-> upcoming[1].value[1][i].name]
               = DueNames(book, clock)

\* C8: the congratulation date of every entry returned is the birthday's
\* occurrence when that is Monday to Friday, two days later when it is a
\* Saturday and one day later when it is a Sunday; it is never a Saturday or
\* a Sunday and never before the occurrence; and the occurrence itself, not
\* the shifted date, is what lies within 7 days.
C8_CongratulationShiftsToMonday ==
    Returned =>
        \A i \in 1..Len(upcoming[1].value[1]) :
            LET entry == upcoming[1].value[1][i]
                record == find(book, entry.name)
                k == DaysAway(record[1].birthday[1], clock)
                occurrence == DaysAfter(clock, k)
                expected == IF weekday(occurrence) = 5 THEN DaysAfter(occurrence, 2)
                            ELSE IF weekday(occurrence) = 6 THEN DaysAfter(occurrence, 1)
                            ELSE occurrence
                shown == strptime(entry.congratulation_date)
            IN /\ record # None
               /\ Due(record[1], clock)
               /\ entry.congratulation_date = strftime(expected)
               /\ shown.raised = ""
               /\ weekday(shown.value[1]) \notin {5, 6}
               /\ toordinal(shown.value[1]) >= toordinal(occurrence)

\* C8's case: an entry whose birthday is 7 days away, on a Saturday, and
\* whose congratulation date is the Monday 9 days away
C8_Witness ==
    /\ Returned
    /\ \E i \in 1..Len(upcoming[1].value[1]) :
          LET entry == upcoming[1].value[1][i]
              record == find(book, entry.name)
          IN /\ DaysAway(record[1].birthday[1], clock) = 7
             /\ entry.congratulation_date = strftime(DaysAfter(clock, 9))

\* C9: when a record has a 29 February birthday and the year put in place of
\* its year is not a leap year, the computation fails for the whole book:
\* no list is returned, also not for the records due.
C9_LeapDayFailsWholeBook ==
    (/\ upcoming # None
     /\ ~IsLeap(LeapDayYear(clock))
     /\ \E i \in 1..Len(book) :
           /\ book[i].birthday # None
           /\ book[i].birthday[1].month = 2
           /\ book[i].birthday[1].day = 29)
    => (upcoming[1].raised = "ValueError" /\ upcoming[1].value = None)

\* C9's case: the call failed on a book whose first record is due and whose
\* second has the 29 February birthday
C9_Witness ==
    /\ upcoming # None
    /\ upcoming[1].raised = "ValueError"
    /\ Len(book) = 2
    /\ Due(book[1], clock)
    /\ book[2].birthday = Some(Date(2000, 2, 29))
    /\ output = GiveMeNameAndPhone

\* C10: a command that does not report success leaves the book as it was;
\* the read-only commands never change it; and every contact of the book
\* has at least one phone.
C10_NoSuccessNoChange ==
    [][/\ (pc = "loop" /\ output' \notin SuccessMessages) => book' = book
       /\ (pc = "loop" /\ pc' = "loop" /\ command' \notin {CmdAdd, CmdChange, CmdAddBirthday})
          => book' = book
       /\ \A i \in 1..Len(book') : Len(book'[i].phones) >= 1]_vars

\* C10's case: add-birthday with an invalid date failed on a contact that
\* has a birthday
C10_Witness ==
    /\ pc = "loop"
    /\ command = CmdAddBirthday
    /\ output = GiveMeNameAndPhone
    /\ \E i \in 1..Len(book) : book[i].name = Alice /\ book[i].birthday # None

===========================================================================
